---- MODULE Spec2Model ----
(***************************************************************************)
(* Pet intake form (src/app.py): one Streamlit page whose script, main(),  *)
(* runs from top to bottom on every render.  The form tab validates and    *)
(* inserts a record through insert_Pet_intake; the records tab lists the   *)
(* table through fetch_Pet_records.  Each adapter call opens its own       *)
(* psycopg2 connection and runs one transaction: schema setup, the         *)
(* statement, commit.  An exception inside the transaction rolls all of it *)
(* back, the DDL included.                                                 *)
(***************************************************************************)
EXTENDS Integers, Sequences, FiniteSets, TLC

\* Largest value of the SERIAL sequence for which a submission is still started.
MaxId == 2
\* Number of hex digits _generate_pet_id keeps of the uuid: hex[:10].
PetIdHexLen == 10

VARIABLES
    token,          \* LAKEBASE_OAUTH_TOKEN is truthy
    session_pet_id, \* st.session_state["pet_id"], NoPetId while the key is absent
    tableExists,    \* committed: "pet_data"."public"."pet_records" exists
    rows,           \* committed rows of the table
    nextId,         \* next value of the SERIAL sequence behind id
    submission,     \* submit button and required widgets of the last render
    formMsg,        \* banner of the form tab written by the last render
    recordsView,    \* what the last render put in the records tab
    records,        \* the list the last render got from fetch_Pet_records
    insertOp,       \* what insert_Pet_intake did in the last render
    fetchOp,        \* what fetch_Pet_records did in the last render
    everCreated     \* a CREATE TABLE has made the table, in a transaction
                    \* that committed or in one that was rolled back

vars == <<token, session_pet_id, tableExists, rows, nextId, submission, formMsg,
          recordsView, records, insertOp, fetchOp, everCreated>>

-----------------------------------------------------------------------------
(* Values *)

None == "None"
NoPetId == <<>>
Whitespace == {" ", "\t"}

\* Sample widget contents of one submission: full name (a sequence of
\* characters) and birth date.  The other widgets hold FilledBody.
FullNames ==
    { <<>>, <<" ">>, <<" ", "\t">>, <<"J", "o">>, <<" ", "J", " ">> }
BirthDates == { None, "1990-01-01" }
FormInputs == [full_name : FullNames, date_of_birth : BirthDates]

FilledBody ==
    [phone |-> "+1 555-123-4567", email |-> "jane.doe@example.com",
     address |-> "123 Main St", visit_date |-> "2026-11-04",
     department |-> "Cardiology", symptoms |-> "cough",
     allergies |-> "pollen", additional_notes |-> "none so far"]

\* uuid4().hex values the generator may draw (lower-case hex digits; the
\* digits after the twelfth play no part and are left out).  The first two
\* differ only after the tenth digit.
Uuids ==
    { <<"9", "f", "1", "c", "0", "a", "7", "e", "4", "b", "2", "d">>,
      <<"9", "f", "1", "c", "0", "a", "7", "e", "4", "b", "8", "6">>,
      <<"0", "3", "d", "5", "e", "6", "1", "a", "b", "c", "7", "7">> }

\* Outcomes the database can produce for one adapter call.
Faults ==
    {"none", "connect", "schema_transient", "schema_persistent",
     "statement", "commit"}
SchemaFaults == {"schema_transient", "schema_persistent"}

TokenMissing == "Missing OAuth token. Set it in credentials.py as token = '...'."

-----------------------------------------------------------------------------
(* Form Controller helpers *)

RECURSIVE lstrip(_)
lstrip(s) ==
    IF s # <<>> /\ Head(s) \in Whitespace THEN lstrip(Tail(s)) ELSE s

RECURSIVE rstrip(_)
rstrip(s) ==
    IF s # <<>> /\ s[Len(s)] \in Whitespace
    THEN rstrip(SubSeq(s, 1, Len(s) - 1))
    ELSE s

\* variant: the name is tested as typed, without strip()
strip_identity(s) == s

\* str.strip()
strip(s) == rstrip(lstrip(s))

\* missing_fields of main, in the order the code appends them
missing_fields(full_name, date_of_birth) ==
    (IF strip(full_name) = <<>> THEN <<"Full name">> ELSE <<>>)
    \o (IF date_of_birth = None THEN <<"Date of birth">> ELSE <<>>)

ValidationText(missing) ==
    <<"Please complete the required fields: ">> \o missing

upper(c) ==
    CASE c = "a" -> "A" [] c = "b" -> "B" [] c = "c" -> "C"
      [] c = "d" -> "D" [] c = "e" -> "E" [] c = "f" -> "F"
      [] OTHER -> c

Min(a, b) == IF a <= b THEN a ELSE b

\* f"PET-{uuid.uuid4().hex[:10].upper()}", u the hex string drawn
_generate_pet_id(u) ==
    <<"PET-">> \o [i \in 1..Min(PetIdHexLen, Len(u)) |-> upper(u[i])]

\* variant: the identifier is generated on every render
SessionPetId_regenerate(session, u) == _generate_pet_id(u)

\* if "pet_id" not in st.session_state: st.session_state["pet_id"] = ...
SessionPetId(session, u) ==
    IF session = NoPetId THEN _generate_pet_id(u) ELSE session

\* the payload dict of main
BuildPayload(form, pet_id) ==
    [full_name |-> form.full_name, Pet_id |-> pet_id,
     date_of_birth |-> form.date_of_birth,
     phone |-> FilledBody.phone, email |-> FilledBody.email,
     address |-> FilledBody.address, visit_date |-> FilledBody.visit_date,
     department |-> FilledBody.department, symptoms |-> FilledBody.symptoms,
     allergies |-> FilledBody.allergies,
     additional_notes |-> FilledBody.additional_notes]

-----------------------------------------------------------------------------
(* Record Store Adapter *)

Message(fault) ==
    CASE fault = "connect" -> "OperationalError: could not connect to server"
      [] fault \in SchemaFaults -> "DatabaseError: schema setup failed"
      [] fault = "statement" -> "DatabaseError: statement rejected"
      [] fault = "commit" -> "OperationalError: commit failed"
      [] OTHER -> "none"

\* variant: a connection opened earlier is handed out again
connect_cached(fault) == [calls |-> 0, ok |-> TRUE]

\* psycopg2.connect(cursor_factory=RealDictCursor, **config): one new
\* connection (one credential exchange) per call
psycopg2_connect(fault) == [calls |-> 1, ok |-> fault # "connect"]

\* variant: a failed setup is rolled back and tried a second time
create_schema_with_retry(exists, fault) ==
    [attempts |-> IF fault \in SchemaFaults THEN 2 ELSE 1,
     raised   |-> fault = "schema_persistent",
     created  |-> fault # "schema_persistent" /\ ~exists]

\* variant: CREATE TABLE without IF NOT EXISTS semantics, the table is made
\* on every call
create_schema_recreate(exists, fault) ==
    [attempts |-> 1,
     raised   |-> fault \in SchemaFaults,
     created  |-> fault \notin SchemaFaults]

\* CREATE SCHEMA IF NOT EXISTS; CREATE TABLE IF NOT EXISTS, each executed
\* once with no exception handler: a failing statement raises to the caller.
\* created: the CREATE TABLE found no table and made one in this transaction.
_create_schema_and_table(exists, fault) ==
    [attempts |-> 1,
     raised   |-> fault \in SchemaFaults,
     created  |-> fault \notin SchemaFaults /\ ~exists]

\* variant: phone and email bound to each other's column
InsertRow_swapped(payload, id, now) ==
    [id |-> id, full_name |-> payload.full_name, pet_id |-> payload.Pet_id,
     date_of_birth |-> payload.date_of_birth, phone |-> payload.email,
     email |-> payload.phone, address |-> payload.address,
     visit_date |-> payload.visit_date, department |-> payload.department,
     symptoms |-> payload.symptoms, allergies |-> payload.allergies,
     additional_notes |-> payload.additional_notes, created_at |-> now]

\* INSERT INTO ... VALUES (%(full_name)s, %(Pet_id)s, ...): the eleven
\* parameters bound by name; id from the SERIAL sequence, created_at from
\* DEFAULT NOW().  The unquoted column Pet_id is folded to pet_id.
InsertRow(payload, id, now) ==
    [id |-> id, full_name |-> payload.full_name, pet_id |-> payload.Pet_id,
     date_of_birth |-> payload.date_of_birth, phone |-> payload.phone,
     email |-> payload.email, address |-> payload.address,
     visit_date |-> payload.visit_date, department |-> payload.department,
     symptoms |-> payload.symptoms, allergies |-> payload.allergies,
     additional_notes |-> payload.additional_notes, created_at |-> now]

\* The connection's __exit__ on an exception: the transaction is rolled back,
\* the table creation included.  A committed sequence keeps the value the
\* failed INSERT drew; a sequence created in this transaction goes with it.
Rollback(db, drawn) ==
    IF db.tableExists THEN [db EXCEPT !.nextId = @ + drawn] ELSE db

Raise(fault, msg, connects, attempts, created, db) ==
    [called |-> TRUE, fault |-> fault, raised |-> msg, connects |-> connects,
     schemaAttempts |-> attempts, created |-> created, result |-> <<>>,
     db |-> db]

Return(fault, connects, attempts, created, result, db) ==
    [called |-> TRUE, fault |-> fault, raised |-> "none",
     connects |-> connects, schemaAttempts |-> attempts, created |-> created,
     result |-> result, db |-> db]

\* variant: the row is committed before the statement or commit error is
\* raised, so a failed insert leaves its write behind
insert_partial_write(tok, payload, fault, db, now) ==
    IF ~tok \/ fault \in {"connect"} \cup SchemaFaults
    THEN Raise(fault, IF tok THEN Message(fault) ELSE TokenMissing,
               IF tok THEN 1 ELSE 0, 0, FALSE, db)
    ELSE IF fault = "none"
    THEN Return(fault, 1, 1, ~db.tableExists, <<>>,
                [tableExists |-> TRUE,
                 rows |-> db.rows \cup {InsertRow(payload, db.nextId, now)},
                 nextId |-> db.nextId + 1])
    ELSE Raise(fault, Message(fault), 1, 1, ~db.tableExists,
               [tableExists |-> TRUE,
                rows |-> db.rows \cup {InsertRow(payload, db.nextId, now)},
                nextId |-> db.nextId + 1])

\* insert_Pet_intake(payload): credential check, then one connection and one
\* transaction: schema setup, the INSERT, commit.  now is the NOW() of the
\* transaction.  date_of_birth is NOT NULL, as is full_name (the text widget
\* never yields None).
insert_Pet_intake(tok, payload, fault, db, now) ==
    IF ~tok
    THEN Raise(fault, TokenMissing, 0, 0, FALSE, db)
    ELSE LET c == psycopg2_connect(fault) IN
         IF ~c.ok
         THEN Raise(fault, Message(fault), c.calls, 0, FALSE, db)
         ELSE LET s == _create_schema_and_table(db.tableExists, fault) IN
              IF s.raised
              THEN Raise(fault, Message(fault), c.calls, s.attempts, FALSE,
                         Rollback(db, 0))
              ELSE IF fault = "statement" \/ payload.date_of_birth = None
              THEN Raise(fault, Message("statement"), c.calls, s.attempts,
                         s.created, Rollback(db, 1))
              ELSE IF fault = "commit"
              THEN Raise(fault, Message(fault), c.calls, s.attempts,
                         s.created, Rollback(db, 1))
              ELSE Return(fault, c.calls, s.attempts, s.created, <<>>,
                          [tableExists |-> TRUE,
                           rows |-> db.rows
                                    \cup {InsertRow(payload, db.nextId, now)},
                           nextId |-> db.nextId + 1])

Perms(S) ==
    { f \in [1..Cardinality(S) -> S] :
        \A i, j \in 1..Cardinality(S) : i # j => f[i] # f[j] }

\* variant: ORDER BY created_at ASC
SelectOrdered_ascending(rs) ==
    { s \in Perms(rs) :
        \A i, j \in 1..Len(s) : i < j => s[i].created_at <= s[j].created_at }

\* SELECT ... ORDER BY created_at DESC: every order of the rows the sort key
\* allows (rows with equal created_at come in any order)
SelectOrdered(rs) ==
    { s \in Perms(rs) :
        \A i, j \in 1..Len(s) : i < j => s[i].created_at >= s[j].created_at }

\* fetch_Pet_records(): credential check, then one connection and one
\* transaction: schema setup, the SELECT, commit.  recs is the rows as the
\* SELECT returned them, one of SelectOrdered(db.rows).
fetch_Pet_records(tok, fault, db, recs) ==
    IF ~tok
    THEN Raise(fault, TokenMissing, 0, 0, FALSE, db)
    ELSE LET c == psycopg2_connect(fault) IN
         IF ~c.ok
         THEN Raise(fault, Message(fault), c.calls, 0, FALSE, db)
         ELSE LET s == _create_schema_and_table(db.tableExists, fault) IN
              IF s.raised
              THEN Raise(fault, Message(fault), c.calls, s.attempts, FALSE,
                         Rollback(db, 0))
              ELSE IF fault \in {"statement", "commit"}
              THEN Raise(fault, Message(fault), c.calls, s.attempts,
                         s.created, Rollback(db, 0))
              ELSE Return(fault, c.calls, s.attempts, s.created, recs,
                          [db EXCEPT !.tableExists = TRUE])

NotCalled ==
    [called |-> FALSE, fault |-> "none", raised |-> "none", connects |-> 0,
     schemaAttempts |-> 0, created |-> FALSE]

\* what an adapter call leaves behind for the render that made it
OpLog(r) ==
    [called |-> r.called, fault |-> r.fault, raised |-> r.raised,
     connects |-> r.connects, schemaAttempts |-> r.schemaAttempts,
     created |-> r.created]

\* DEFAULT NOW() of a new transaction: not before any timestamp stored so far
MaxStamp(rs) ==
    IF rs = {} THEN 0
    ELSE CHOOSE m \in {r.created_at : r \in rs} :
             \A r \in rs : r.created_at <= m

NowChoices(rs) == { MaxStamp(rs), MaxStamp(rs) + 1 }

-----------------------------------------------------------------------------
(* The page script *)

NoSubmission ==
    [submitted |-> FALSE, full_name |-> <<>>, date_of_birth |-> None]

Submitted(form) ==
    [submitted |-> TRUE, full_name |-> form.full_name,
     date_of_birth |-> form.date_of_birth]

Banner(kind, text, echo) == [kind |-> kind, text |-> text, echo |-> echo]

\* variant: the tab reports an error whatever the list holds
records_view_error(recs) == "error"

\* if records: st.dataframe(records) else: st.info("No Pet records found yet.")
records_view(recs) == IF recs # <<>> THEN "dataframe" ELSE "info"

Database == [tableExists |-> tableExists, rows |-> rows, nextId |-> nextId]

SetDatabase(db) ==
    /\ tableExists' = db.tableExists
    /\ rows' = db.rows
    /\ nextId' = db.nextId

\* with records_tab: ... of main, run against the database db
RecordsTab(db, fetFault, created) ==
    \E recs \in SelectOrdered(db.rows) :
        LET fet == fetch_Pet_records(token, fetFault, db, recs) IN
        /\ fetchOp' = OpLog(fet)
        /\ records' = fet.result
        /\ recordsView' =
               IF fet.raised # "none"
               THEN <<"error", "Unable to load records: ", fet.raised>>
               ELSE <<records_view(fet.result)>>
        /\ everCreated' = (everCreated \/ created \/ fet.created)
        /\ SetDatabase(fet.db)

\* main() returned before the records tab block
NoRecordsTab(db, created) ==
    /\ fetchOp' = NotCalled
    /\ records' = <<>>
    /\ recordsView' = <<"empty">>
    /\ everCreated' = (everCreated \/ created)
    /\ SetDatabase(db)

\* One run of main(): submitted and form are the widget values, u1 and u2
\* the uuid4 draws, insFault and fetFault what the database does to the two
\* adapter calls, now the NOW() of the insert transaction.
main(submitted, form, u1, u2, insFault, fetFault, now) ==
    LET pet_id == SessionPetId(session_pet_id, u1)
        missing == missing_fields(form.full_name, form.date_of_birth)
        payload == BuildPayload(form, pet_id)
        ins == insert_Pet_intake(token, payload, insFault, Database, now)
    IN  /\ token' = token
        /\ submission' = IF submitted THEN Submitted(form) ELSE NoSubmission
        /\ IF ~submitted
           THEN /\ formMsg' = Banner("blank", <<>>, <<>>)
                /\ session_pet_id' = pet_id
                /\ insertOp' = NotCalled
                /\ RecordsTab(Database, fetFault, FALSE)
           ELSE IF missing # <<>>
           THEN /\ formMsg' = Banner("error", ValidationText(missing), <<>>)
                /\ session_pet_id' = pet_id
                /\ insertOp' = NotCalled
                /\ NoRecordsTab(Database, FALSE)
           ELSE IF ins.raised # "none"
           THEN /\ formMsg' = Banner("error",
                                     <<"Submission failed: ", ins.raised>>,
                                     <<>>)
                /\ session_pet_id' = pet_id
                /\ insertOp' = OpLog(ins)
                /\ NoRecordsTab(ins.db, ins.created)
           ELSE /\ formMsg' = Banner("success",
                                     <<"Pet intake form submitted to Lakebase.">>,
                                     <<payload>>)
                /\ session_pet_id' = _generate_pet_id(u2)
                /\ insertOp' = OpLog(ins)
                /\ RecordsTab(ins.db, fetFault, ins.created)

-----------------------------------------------------------------------------
(* Specification *)

Init ==
    /\ token \in BOOLEAN
    /\ session_pet_id = NoPetId
    /\ tableExists = FALSE
    /\ rows = {}
    /\ nextId = 1
    /\ submission = NoSubmission
    /\ formMsg = Banner("unrendered", <<>>, <<>>)
    /\ recordsView = <<"unrendered">>
    /\ records = <<>>
    /\ insertOp = NotCalled
    /\ fetchOp = NotCalled
    /\ everCreated = FALSE

\* what the database can do to a call of this process
FaultChoices == IF token THEN Faults ELSE {"none"}

AnyForm == [full_name |-> <<>>, date_of_birth |-> None]
AnyUuid == CHOOSE u \in Uuids : TRUE

IsValid(form) == missing_fields(form.full_name, form.date_of_birth) = <<>>

\* A render without a click on the submit button (the first render of a
\* session is one: the button exists only once the form has been drawn).
RenderPage ==
    \E u1 \in (IF session_pet_id = NoPetId THEN Uuids ELSE {AnyUuid}),
       fetFault \in FaultChoices :
        main(FALSE, AnyForm, u1, AnyUuid, "none", fetFault, 0)

\* A click on submit with a required field missing.
SubmitIncomplete ==
    /\ session_pet_id # NoPetId
    /\ \E form \in FormInputs :
        /\ ~IsValid(form)
        /\ main(TRUE, form, AnyUuid, AnyUuid, "none", "none", 0)

\* A click on submit whose insert raises.
SubmitRejected ==
    /\ session_pet_id # NoPetId
    /\ nextId <= MaxId
    /\ \E form \in FormInputs, insFault \in FaultChoices,
          now \in NowChoices(rows) :
        /\ IsValid(form)
        /\ token => insFault # "none"
        /\ main(TRUE, form, AnyUuid, AnyUuid, insFault, "none", now)

\* A click on submit whose insert commits.
SubmitStored ==
    /\ session_pet_id # NoPetId
    /\ nextId <= MaxId
    /\ token
    /\ \E form \in FormInputs, u2 \in Uuids, fetFault \in FaultChoices,
          now \in NowChoices(rows) :
        /\ IsValid(form)
        /\ main(TRUE, form, AnyUuid, u2, "none", fetFault, now)

Next ==
    \/ RenderPage
    \/ SubmitIncomplete
    \/ SubmitRejected
    \/ SubmitStored

Spec == Init /\ [][Next]_vars

-----------------------------------------------------------------------------
(* Properties *)

IsBlank(s) == \A i \in 1..Len(s) : s[i] \in Whitespace

Mentions(text, field) == \E i \in 1..Len(text) : text[i] = field

Ops == {insertOp, fetchOp}

\* C1: a submission whose full name is empty or whitespace-only, or whose
\* birth date is absent, gets a validation error that names exactly the
\* missing fields, makes no insert call and changes neither the table's rows
\* nor the session's pet identifier.
C1_ValidationBlocksInsert ==
    [][ (submission'.submitted
         /\ (IsBlank(submission'.full_name)
             \/ submission'.date_of_birth = None))
        => /\ formMsg'.kind = "error"
           /\ formMsg'.text[1] = "Please complete the required fields: "
           /\ Mentions(formMsg'.text, "Full name")
                  <=> IsBlank(submission'.full_name)
           /\ Mentions(formMsg'.text, "Date of birth")
                  <=> submission'.date_of_birth = None
           /\ ~insertOp'.called
           /\ rows' = rows
           /\ session_pet_id' = session_pet_id ]_vars

\* A whitespace-only name was submitted against a table that holds rows.
C1_Witness ==
    /\ submission.submitted
    /\ submission.full_name # <<>>
    /\ IsBlank(submission.full_name)
    /\ submission.date_of_birth # None
    /\ formMsg.kind = "error"
    /\ rows # {}

\* C2: when the insert call of a submission raises (no credential, no
\* connection, schema setup or the write rejected, commit failed), the form
\* shows "Submission failed" with the exception's message, the session's pet
\* identifier stays, and the table's rows are those of before.
C2_FailedInsertWritesNothing ==
    [][ (insertOp'.called /\ insertOp'.raised # "none")
        => /\ formMsg'.kind = "error"
           /\ formMsg'.text = <<"Submission failed: ", insertOp'.raised>>
           /\ insertOp'.raised \in
                  {TokenMissing} \cup {Message(f) : f \in Faults \ {"none"}}
           /\ session_pet_id' = session_pet_id
           /\ rows' = rows ]_vars

\* The write of a submission failed at commit on a table that holds rows.
C2_Witness ==
    /\ insertOp.called
    /\ insertOp.fault = "commit"
    /\ insertOp.raised # "none"
    /\ formMsg.kind = "error"
    /\ rows # {}

UserFields(r) ==
    <<r.full_name, r.date_of_birth, r.phone, r.email, r.address,
      r.visit_date, r.department, r.symptoms, r.allergies,
      r.additional_notes>>

\* the record carries the payload's value in each of the eleven fields
MatchesPayload(rec, payload) ==
    /\ UserFields(rec) = UserFields(payload)
    /\ rec.pet_id = payload.Pet_id

\* C3: after a successful insert of a payload (full name not empty, birth
\* date set) the fetch that follows returns a record equal to the payload in
\* all eleven user-supplied fields, with id and created_at assigned, a record
\* the table did not hold before; and when the table was empty before, that
\* fetch returns exactly one record.
C3_InsertThenFetch ==
    [][ (formMsg'.kind = "success" /\ fetchOp'.called
         /\ fetchOp'.raised = "none")
        => /\ \E i \in 1..Len(records') :
                /\ MatchesPayload(records'[i], formMsg'.echo[1])
                /\ records'[i].id \in 1..(MaxId + 1)
                /\ records'[i].created_at \in Nat
                /\ records'[i] \notin rows
           /\ formMsg'.echo[1].full_name # <<>>
           /\ formMsg'.echo[1].date_of_birth # None
           /\ rows = {} => Len(records') = 1 ]_vars

\* A second record, with a name padded by blanks, was stored and listed.
C3_Witness ==
    /\ formMsg.kind = "success"
    /\ fetchOp.raised = "none"
    /\ Len(records) = 2
    /\ formMsg.echo[1].full_name = <<" ", "J", " ">>
    /\ \E i \in 1..2 : MatchesPayload(records[i], formMsg.echo[1])

\* C4 as claimed: one session never gives two stored records the same pet
\* identifier (each successful submission is followed by a different one).
C4_IdentifierNeverReused ==
    \A r1, r2 \in rows : r1.id # r2.id => r1.pet_id # r2.pet_id

\* C4: the pet identifier is generated when the session has none, stays the
\* same over every render that does not store a record (re-renders, failed
\* validations, failed inserts), and after each successful submission, which
\* stores the identifier the session held, is replaced by a newly generated
\* PET- identifier.
C4_IdentifierLifecycle ==
    [][ /\ (session_pet_id # NoPetId /\ formMsg'.kind # "success")
            => session_pet_id' = session_pet_id
        /\ session_pet_id' # NoPetId
        /\ formMsg'.kind = "success"
            => /\ formMsg'.echo[1].Pet_id = session_pet_id
               /\ \E u \in Uuids : session_pet_id' = _generate_pet_id(u)
               /\ Len(session_pet_id') = 1 + PetIdHexLen ]_vars

\* A record was stored and the session holds another identifier than the
\* record's.
C4_Witness ==
    /\ formMsg.kind = "success"
    /\ session_pet_id # formMsg.echo[1].Pet_id
    /\ \E r \in rows : r.pet_id = formMsg.echo[1].Pet_id

C6_SchemaSetupRetriedOnce ==
    \A op \in Ops :
        (op.called /\ op.fault = "schema_transient")
            => op.schemaAttempts = 2 /\ op.raised = "none"

\* C6: when schema setup fails inside an insert or fetch, whether or not a
\* second attempt would succeed, it has been attempted exactly once, the
\* transaction is rolled back (table and rows as before) and the error
\* reaches the user at once: "Submission failed" for an insert, "Unable to
\* load records" for a fetch.
C6_SchemaFailurePropagatesAtOnce ==
    [][ /\ (insertOp'.called /\ insertOp'.fault \in SchemaFaults)
            => /\ insertOp'.schemaAttempts = 1
               /\ insertOp'.raised = Message(insertOp'.fault)
               /\ formMsg'.text = <<"Submission failed: ", insertOp'.raised>>
               /\ ~fetchOp'.called
               /\ rows' = rows /\ tableExists' = tableExists
        /\ (fetchOp'.called /\ fetchOp'.fault \in SchemaFaults)
            => /\ fetchOp'.schemaAttempts = 1
               /\ fetchOp'.raised = Message(fetchOp'.fault)
               /\ recordsView' =
                      <<"error", "Unable to load records: ", fetchOp'.raised>>
               /\ records' = <<>>
               /\ ~insertOp'.called
                      => rows' = rows /\ tableExists' = tableExists ]_vars

\* A fetch met a schema setup failure that a retry would have overcome.
C6_Witness ==
    /\ fetchOp.called
    /\ fetchOp.fault = "schema_transient"
    /\ fetchOp.schemaAttempts = 1
    /\ recordsView[1] = "error"

\* C7 as claimed: every render calls the fetch operation and fills the
\* records tab, also one whose submission failed validation or whose insert
\* failed.
C7_FetchOnEveryRender ==
    formMsg.kind # "unrendered"
        => fetchOp.called /\ recordsView # <<"empty">>

\* C8: every list a fetch returns holds each row of the table once and is
\* sorted by created_at descending: of two records with distinct created_at
\* the later one comes first.
C8_NewestFirst ==
    (fetchOp.called /\ fetchOp.raised = "none")
        => /\ { records[i] : i \in 1..Len(records) } = rows
           /\ Len(records) = Cardinality(rows)
           /\ \A i, j \in 1..Len(records) :
                  records[i].created_at > records[j].created_at => i < j

\* Two records stored at distinct times are listed, the later id first.
C8_Witness ==
    /\ fetchOp.called /\ fetchOp.raised = "none"
    /\ Len(records) >= 2
    /\ records[1].created_at > records[2].created_at
    /\ records[1].id > records[2].id

\* C9 as claimed: over any sequence of operations, those with a failed and
\* rolled-back insert included, schema setup creates the table at most once:
\* after a call that created it, no later call creates it again.
C9_CreatesAtMostOnce ==
    [][ everCreated => (~insertOp'.created /\ ~fetchOp'.created) ]_vars

\* C9: schema setup runs once, before the statement, in every insert and
\* every fetch that returns.  A creation made by a transaction that fails is
\* rolled back with it, and a later call makes it again; it is the committed
\* creation that happens at most once.  Once the table exists it stays: no
\* later call creates a table, a call that meets no database failure raises
\* nothing, and only a successful insert changes the rows, by adding one.
C9_SchemaSetupIdempotent ==
    [][ /\ \A op \in {insertOp', fetchOp'} :
             /\ (op.called /\ op.raised = "none") => op.schemaAttempts = 1
             /\ (op.called /\ token /\ op.fault = "none") => op.raised = "none"
             /\ op.created => ~tableExists
             /\ (op.created /\ op.raised = "none") => tableExists'
        /\ tableExists => tableExists'
        /\ tableExists' => everCreated'
        /\ (insertOp'.called /\ insertOp'.raised = "none")
             => /\ rows \subseteq rows'
                /\ Cardinality(rows') = Cardinality(rows) + 1
        /\ ~(insertOp'.called /\ insertOp'.raised = "none")
             => rows' = rows ]_vars

\* A fetch ran schema setup against the committed table, which holds a row,
\* without creating anything and without an error.
C9_Witness ==
    /\ everCreated
    /\ tableExists
    /\ rows # {}
    /\ fetchOp.called /\ fetchOp.raised = "none"
    /\ fetchOp.schemaAttempts = 1
    /\ ~fetchOp.created

\* C10: with a credential and no database failure, a fetch on a table with
\* no rows, the fetch that creates the table included, raises nothing and
\* returns the empty list, and the records tab shows the "No Pet records
\* found yet." notice.
C10_EmptyTableIsNotAnError ==
    (fetchOp.called /\ token /\ fetchOp.fault = "none" /\ rows = {})
        => /\ fetchOp.raised = "none"
           /\ records = <<>>
           /\ recordsView = <<"info">>

\* The first fetch created the table and showed the notice.
C10_Witness ==
    /\ fetchOp.called
    /\ fetchOp.created
    /\ fetchOp.raised = "none"
    /\ rows = {}
    /\ recordsView = <<"info">>

====
